---- MODULE Spec2Model ----
(***************************************************************************)
(* PriceTracker front end: the ProductSearch box with its recent-searches  *)
(* store, the App root controller (search / selection / price history),    *)
(* the API client and the PriceChart component's Chart.js instance.        *)
(*                                                                         *)
(* Conventions.                                                            *)
(*  - A JS value that may be null is a sequence of length 0 (null) or 1.   *)
(*  - A query string is a sequence of tokens; the token " " is one         *)
(*    whitespace character, any other token is a run of non-whitespace.    *)
(*  - One action is one event-loop task: the handler (or the continuation  *)
(*    after an await) together with the React commit that follows it.      *)
(***************************************************************************)
EXTENDS Integers, Sequences, FiniteSets, TLC

VARIABLES
    \* ProductSearch (src/unnamed/part_000:141-145) and the browser store
    query,               \* text of the search input
    recentSearches,      \* useState([])
    showRecentSearches,  \* useState(false): the dropdown is rendered
    localStorage,        \* item 'recentSearches': absent (<<>>) or <<list>>
    \* App (src/attached_assets/search-form.tsx:59-65)
    searchQuery,
    searchResults,
    isLoading,
    error,
    selectedProduct,
    priceHistory,
    isHistoryLoading,
    \* requests awaiting their response, oldest first
    searchPending,
    historyPending,
    \* PriceChart (src/static/js/components/PriceChart.js:2-4) and Chart.js
    priceChart,          \* the mounted component: chartInstance, chartError, the
                         \* pending effect cleanup; and charts, the destroy() count
                         \* of every Chart instance the page has created
    \* history variables (not program state)
    resultsStale,        \* the response in searchResults came from a request
                         \* that a later request's response had overtaken
    historyRequest,      \* the product whose history request filled priceHistory
    \* the parts of the page taken on their own
    apiCalled,           \* the last call of an API client function made by a
                         \* caller other than App: the function, the requests
                         \* it issued, the response and the outcome
    chartProps,          \* props of a PriceChart rendered by any parent
    tableProps,          \* props of a ComparisonTable rendered by any parent
    sortConfig           \* ComparisonTable (ProductCard.js:202-205)

searchVars  == <<query, recentSearches, showRecentSearches, localStorage>>
appVars     == <<searchQuery, searchResults, isLoading, error, selectedProduct,
                 priceHistory, isHistoryLoading>>
netVars     == <<searchPending, historyPending>>
ghostVars   == <<resultsStale, historyRequest>>
partVars    == <<apiCalled, chartProps, tableProps, sortConfig>>
vars        == <<searchVars, appVars, netVars, priceChart, ghostVars, partVars>>

-----------------------------------------------------------------------------
(* Bounds of the model *)

\* requests the user lets wait at once, and Chart instances per page load
MaxInFlight == 2
MaxCharts == 2
\* the same, where the search box is checked against all its suggestions
MaxInFlightBox == 1

-----------------------------------------------------------------------------
(* Values *)

None == <<>>
Some(x) == <<x>>
IsNull(v) == Len(v) = 0
Val(v) == v[1]

Min(a, b) == IF a < b THEN a ELSE b

\* Array.prototype.filter with the predicate "element differs from x"
RECURSIVE FilterNot(_, _)
FilterNot(s, x) ==
    IF s = <<>> THEN <<>>
    ELSE IF Head(s) = x THEN FilterNot(Tail(s), x)
         ELSE <<Head(s)>> \o FilterNot(Tail(s), x)

\* Array.prototype.slice(0, n)
Slice0(s, n) == SubSeq(s, 1, Min(n, Len(s)))

Range(s) == {s[i] : i \in 1..Len(s)}

\* String.prototype.trim
RECURSIVE trimStart(_)
trimStart(s) ==
    IF s # <<>> /\ Head(s) = " " THEN trimStart(Tail(s)) ELSE s

RECURSIVE trimEnd(_)
trimEnd(s) ==
    IF s # <<>> /\ s[Len(s)] = " " THEN trimEnd(SubSeq(s, 1, Len(s) - 1)) ELSE s

trim(s) == trimEnd(trimStart(s))

-----------------------------------------------------------------------------
(* ProductSearch *)

popularSearches ==
    << <<"smartphone">>, <<"laptop">>, <<"headphones">>, <<"smartwatch">>, <<"camera">> >>

RecentLimit == 5

\* a saveSearch that forgets to drop the earlier occurrence
updatedSearchesKeepingOld(recent, searchQuery_) ==
    <<searchQuery_>> \o recent

\* saveSearch: the list it stores for searchQuery, given the current list
updatedSearchesAll(recent, searchQuery_) ==
    <<searchQuery_>> \o FilterNot(recent, searchQuery_)

\* a saveSearch without its slice(0, 5)
updatedSearchesUncapped(recent, searchQuery_) ==
    updatedSearchesAll(recent, searchQuery_)

updatedSearches(recent, searchQuery_) ==
    Slice0(updatedSearchesAll(recent, searchQuery_), RecentLimit)

\* JSON.stringify / JSON.parse of an array of strings: the item holds the array
JSONstringify(list) == Some(list)
JSONparse(item) == Val(item)

saveSearch(searchQuery_) ==
    IF trim(searchQuery_) = <<>>
    THEN UNCHANGED <<recentSearches, localStorage>>
    ELSE /\ recentSearches' = updatedSearches(recentSearches, searchQuery_)
         /\ localStorage' = JSONstringify(updatedSearches(recentSearches, searchQuery_))

-----------------------------------------------------------------------------
(* API client *)

\* An HTTP exchange as the client sees it.
\*   fetched : fetch() resolved (FALSE: transport failure, failure = error.message)
\*   ok, status : response.ok, response.status
\*   isJson  : the body parses as JSON
\*   errField: the 'error' member of a JSON error body ("" when it has none)
\*   text    : the body as text
\*   payload : the parsed JSON value of a successful body
Response(fetched, ok, status, isJson, errField, text, failure, payload) ==
    [fetched |-> fetched, ok |-> ok, status |-> status, isJson |-> isJson,
     errField |-> errField, text |-> text, failure |-> failure, payload |-> payload]

Returns(v) == [returns |-> TRUE, value |-> v, message |-> ""]
Throws(m)  == [returns |-> FALSE, value |-> None, message |-> m]

\* a || b on strings
OrElse(a, b) == IF a # "" THEN a ELSE b

ServerError(status) == "Server error (" \o ToString(status) \o ")"

\* response.text() after response.json() has consumed the body: the body of a
\* fetch Response can be read once, so the second read rejects
textAfterJson(resp) == Throws("body stream already read")

\* an error branch that never reads the body
errorMessageIgnoringBody(resp, default) == default

\* the !response.ok branch: the message of the Error it throws
errorMessage(resp, default) ==
    IF resp.isJson
    THEN OrElse(resp.errField, default)
    ELSE LET textContent == textAfterJson(resp)
         IN  IF textContent.returns
             THEN IF Val(textContent.value) # "" /\ Len(Val(textContent.value)) < 100
                  THEN Val(textContent.value)
                  ELSE ServerError(resp.status)
             ELSE ServerError(resp.status)

\* a client that lets the parse error of a successful response escape
apiCallStrict(resp, default, fallback, generic) ==
    IF ~resp.fetched THEN Throws(OrElse(resp.failure, generic))
    ELSE IF ~resp.ok THEN Throws(OrElse(errorMessage(resp, default), generic))
    ELSE IF resp.isJson THEN Returns(resp.payload)
    ELSE Throws("Unexpected token < in JSON at position 0")

\* a client whose outer catch rethrows the error it caught as it is
apiCallRethrowing(resp, default, fallback, generic) ==
    IF ~resp.fetched THEN Throws(resp.failure)
    ELSE IF ~resp.ok THEN Throws(errorMessage(resp, default))
    ELSE IF resp.isJson THEN Returns(resp.payload)
    ELSE Returns(fallback)

\* the shared shape of searchProducts, getPriceHistory and updatePrices
apiCall(resp, default, fallback, generic) ==
    IF ~resp.fetched THEN Throws(OrElse(resp.failure, generic))
    ELSE IF ~resp.ok THEN Throws(OrElse(errorMessage(resp, default), generic))
    ELSE IF resp.isJson THEN Returns(resp.payload)
    ELSE Returns(fallback)

emptyResults == [amazon |-> <<>>, flipkart |-> <<>>]

searchProducts(resp) ==
    apiCall(resp, "Failed to search for products", Some(emptyResults),
            "An error occurred while searching for products")

getPriceHistory(resp) ==
    apiCall(resp, "Failed to fetch price history", Some(<<>>),
            "An error occurred while fetching price history")

placeholderAck == [message |-> "Operation completed, but response was not valid JSON"]

updatePrices(resp) ==
    apiCall(resp, "Failed to update prices", Some(placeholderAck),
            "An error occurred while updating prices")

\* the fetch calls one call of each function makes
searchProductsFetches == <<"GET /api/search">>
getPriceHistoryFetches == <<"GET /api/price-history">>
updatePricesFetches == <<"POST /api/update-prices">>

-----------------------------------------------------------------------------
(* The backend, as far as the client can tell *)

Product(id, source, price) == [id |-> id, source |-> source, price |-> price]

\* two stores listing the same product id
Products == {Product(1, "amazon", 100), Product(1, "flipkart", 90)}

\* the listing for a query; 'query' stands for what tells one query's
\* listing from another's (the client never reads it)
resultsFor(q) ==
    [amazon |-> <<Product(1, "amazon", 100)>>,
     flipkart |-> <<Product(1, "flipkart", 90)>>,
     query |-> q]

\* an element of a history array: present is FALSE for a null element, date
\* is a day number (0: no date), priceType tells a number from NaN, a string
\* and a missing price
HistoryItem(present, date, priceType, price) ==
    [present |-> present, date |-> date, priceType |-> priceType, price |-> price]

HistoryEntry(date, price) == HistoryItem(TRUE, date, "number", price)
NaNEntry(date)  == HistoryItem(TRUE, date, "NaN", 0)
TextEntry(date) == HistoryItem(TRUE, date, "string", 0)
nullEntry       == HistoryItem(FALSE, 0, "undefined", 0)

\* the history the backend keeps for a product (date 0: no date)
historyOf(productId, source) ==
    IF source = "amazon"
    THEN <<HistoryEntry(1, 100 + productId), HistoryEntry(2, 100)>>
    ELSE <<HistoryEntry(2, 90), HistoryEntry(1, 95)>>

OkJson(payload) == Response(TRUE, TRUE, 200, TRUE, "", "", "", Some(payload))
OkGarbled       == Response(TRUE, TRUE, 200, FALSE, "", "<html>", "", None)
ErrJson(status, err) == Response(TRUE, FALSE, status, TRUE, err, "", "", None)
ErrText(status, text) == Response(TRUE, FALSE, status, FALSE, "", text, "", None)
NetworkFailure  == Response(FALSE, FALSE, 0, FALSE, "", "", "Failed to fetch", None)
\* fetch rejects with an error that carries no message
FetchRejected   == Response(FALSE, FALSE, 0, FALSE, "", "", "", None)

\* plain-text bodies of 99 and of 100 characters
Text99 == "Lorem ipsum dolor sit amet, consectetur adipiscing elit, sed do eiusmod tempor incididunt ut labore"
Text100 == Text99 \o "."

Statuses == {404, 500}

\* every kind of answer the client tells apart, for a call whose successful
\* JSON body is payload
ApiResponses(payload) ==
    {OkJson(payload), OkGarbled, NetworkFailure, FetchRejected}
        \cup {ErrJson(st, e) : st \in Statuses, e \in {"", "x"}}
        \cup {ErrText(st, t) : st \in Statuses, t \in {"", "Bad Gateway", Text99, Text100}}

\* what the backend may answer to a search
SearchResponses(req) == {OkJson(resultsFor(req.query)), ErrJson(500, "x")}
SearchResponsesBox(req) == {OkGarbled, NetworkFailure}

HistoryResponses(req) ==
    {OkJson(historyOf(req.productId, req.source)), OkJson(<<>>),
     ErrText(502, "Bad Gateway")}

-----------------------------------------------------------------------------
(* PriceChart: the Chart.js instance across commits *)

\* historyData && Array.isArray(historyData) && historyData.length > 0
hasData(historyData) == ~IsNull(historyData) /\ Val(historyData) # <<>>

\* the effect's filter: an element with a numeric price and a date
chartValid(item) == item.present /\ item.priceType = "number" /\ item.date # 0

\* chartInstance.destroy(), guarded by if (chartInstance)
destroy(charts, instance) ==
    IF IsNull(instance) THEN charts
    ELSE [charts EXCEPT ![Val(instance)] = Min(@ + 1, 2)]

unmountedChart(charts) ==
    [mounted |-> FALSE, chartInstance |-> None, chartError |-> None,
     cleanup |-> None, charts |-> charts]

\* the cleanup function the last effect run returned, if it returned one:
\* it destroys the chartInstance of the render that created it
runCleanup(pc) ==
    IF IsNull(pc.cleanup) THEN pc
    ELSE [pc EXCEPT !.charts = destroy(pc.charts, Val(pc.cleanup)),
                    !.cleanup = None]

\* one run of the effect, in a render whose state is pc
runEffect(pc, historyData) ==
    IF ~hasData(historyData) \/ ~IsNull(pc.chartError)
    THEN \* no data, or no canvas in this render (ctx undefined): plain return
         [pc EXCEPT !.cleanup = None]
    ELSE LET destroyed == destroy(pc.charts, pc.chartInstance)
         IN  IF \A i \in 1..Len(Val(historyData)) : ~chartValid(Val(historyData)[i])
             THEN [pc EXCEPT !.charts = destroyed,
                             !.chartError = Some("No valid price data found for this product."),
                             !.cleanup = None]
             ELSE [pc EXCEPT !.charts = Append(destroyed, 0),
                             !.chartInstance = Some(Len(destroyed) + 1),
                             !.chartError = None,
                             !.cleanup = Some(pc.chartInstance)]

\* the commit that follows a change of App state
commitChart(pc, rendered, historyData, depsChanged) ==
    IF pc.mounted /\ ~rendered
    THEN unmountedChart(runCleanup(pc).charts)
    ELSE IF ~pc.mounted /\ rendered
    THEN runEffect([pc EXCEPT !.mounted = TRUE], historyData)
    ELSE IF pc.mounted /\ depsChanged
    THEN runEffect(runCleanup(pc), historyData)
    ELSE pc

liveCharts == {i \in 1..Len(priceChart.charts) : priceChart.charts[i] = 0}

-----------------------------------------------------------------------------
(* PriceChart: the statistics of a render *)

\* a value that is neither null nor an array
NonArray == <<"object", "object">>

isArray(v) == Len(v) = 1

\* a quotient of two numbers, kept exact
Rat(num, den) == [num |-> num, den |-> den]

\* product?.price || 0
defaultPriceOf(product_) == IF IsNull(product_) THEN 0 ELSE Val(product_).price

\* calculateStats' filter: an element with a numeric price above 0
statsValid(item) == item.present /\ item.priceType = "number" /\ item.price > 0

RECURSIVE MathMin(_)
MathMin(prices) ==
    IF Len(prices) = 1 THEN prices[1]
    ELSE LET rest == MathMin(Tail(prices))
         IN  IF prices[1] < rest THEN prices[1] ELSE rest

RECURSIVE MathMax(_)
MathMax(prices) ==
    IF Len(prices) = 1 THEN prices[1]
    ELSE LET rest == MathMax(Tail(prices))
         IN  IF prices[1] > rest THEN prices[1] ELSE rest

\* prices.reduce((sum, price) => sum + price, 0)
RECURSIVE Sum(_)
Sum(prices) == IF prices = <<>> THEN 0 ELSE prices[1] + Sum(Tail(prices))

\* a search that keeps the last match
RECURSIVE findLastByPrice(_, _)
findLastByPrice(validData, price) ==
    IF validData = <<>> THEN None
    ELSE IF validData[Len(validData)].price = price
    THEN Some(validData[Len(validData)])
    ELSE findLastByPrice(SubSeq(validData, 1, Len(validData) - 1), price)

\* validData.find(item => item.price === price)
RECURSIVE findByPrice(_, _)
findByPrice(validData, price) ==
    IF validData = <<>> THEN None
    ELSE IF validData[1].price = price THEN Some(validData[1])
    ELSE findByPrice(Tail(validData), price)

\* item?.date || null
dateOrNull(found) ==
    IF IsNull(found) \/ Val(found).date = 0 THEN None ELSE Some(Val(found).date)

Stats(lowestPrice, highestPrice, averagePrice, current, priceChange, priceChangePercent, lowestDate, highestDate, daysTracked) ==
    [lowestPrice |-> lowestPrice, highestPrice |-> highestPrice,
     averagePrice |-> averagePrice, current |-> current,
     priceChange |-> priceChange, priceChangePercent |-> priceChangePercent,
     lowestDate |-> lowestDate, highestDate |-> highestDate,
     daysTracked |-> daysTracked]

\* a fallback that forgets the product's price
fallbackStatsZero(defaultPrice) ==
    Stats(0, 0, Rat(0, 1), 0, 0, Rat(0, 1), None, None, 0)

fallbackStats(defaultPrice) ==
    Stats(defaultPrice, defaultPrice, Rat(defaultPrice, 1), defaultPrice, 0,
          Rat(0, 1), None, None, 0)

\* what a call of calculateStats does: it returns stats or raises, and it may
\* have called setChartError
StatsResult(raised, stats_, chartError) ==
    [raised |-> raised, stats |-> stats_, setChartError |-> chartError]

\* a try block that measures the change from the lowest price
statsOfArrayFromLowest(list) ==
    LET validData == SelectSeq(list, statsValid)
        prices == [i \in 1..Len(validData) |-> validData[i].price]
        lowestPrice == MathMin(prices)
        highestPrice == MathMax(prices)
        current == prices[Len(prices)]
        first == lowestPrice
        priceChange == current - first
    IN  IF validData = <<>> THEN Throws("No valid price data found")
        ELSE Returns(Some(
            Stats(lowestPrice, highestPrice, Rat(Sum(prices), Len(prices)),
                  current, priceChange,
                  IF first > 0 THEN Rat(priceChange * 100, first) ELSE Rat(0, 1),
                  dateOrNull(findByPrice(validData, lowestPrice)),
                  dateOrNull(findByPrice(validData, highestPrice)),
                  Len(validData))))

\* the body of the try block, for a non-empty array
statsOfArray(list) ==
    LET validData == SelectSeq(list, statsValid)
        prices == [i \in 1..Len(validData) |-> validData[i].price]
        lowestPrice == MathMin(prices)
        highestPrice == MathMax(prices)
        current == prices[Len(prices)]
        first == prices[1]
        priceChange == current - first
    IN  IF validData = <<>> THEN Throws("No valid price data found")
        ELSE Returns(Some(
            Stats(lowestPrice, highestPrice, Rat(Sum(prices), Len(prices)),
                  current, priceChange,
                  IF first > 0 THEN Rat(priceChange * 100, first) ELSE Rat(0, 1),
                  dateOrNull(findByPrice(validData, lowestPrice)),
                  dateOrNull(findByPrice(validData, highestPrice)),
                  Len(validData))))

\* a calculateStats without its catch block
calculateStatsUncaught(historyData, product_) ==
    LET defaultPrice == defaultPriceOf(product_) IN
    IF IsNull(historyData) \/ ~isArray(historyData) \/ Val(historyData) = <<>>
    THEN StatsResult(FALSE, fallbackStats(defaultPrice), None)
    ELSE LET tried == statsOfArray(Val(historyData))
         IN  IF tried.returns
             THEN StatsResult(FALSE, Val(tried.value), None)
             ELSE StatsResult(TRUE, fallbackStats(defaultPrice), None)

calculateStats(historyData, product_) ==
    LET defaultPrice == defaultPriceOf(product_) IN
    IF IsNull(historyData) \/ ~isArray(historyData) \/ Val(historyData) = <<>>
    THEN StatsResult(FALSE, fallbackStats(defaultPrice), None)
    ELSE LET tried == statsOfArray(Val(historyData))
         IN  IF tried.returns
             THEN StatsResult(FALSE, Val(tried.value), None)
             ELSE StatsResult(FALSE, fallbackStats(defaultPrice),
                     Some("Could not calculate price statistics due to invalid data."))

\* the rule order with 'wait' tried first
buyRecommendationWaitFirst(stats_) ==
    IF stats_.current * 100 >= stats_.highestPrice * 95 THEN "wait"
    ELSE IF stats_.current * 100 <= stats_.lowestPrice * 105 THEN "great time"
    ELSE IF stats_.current * stats_.averagePrice.den < stats_.averagePrice.num THEN "good"
    ELSE "neutral"

\* the Buy Recommendation block: current <= lowestPrice * 1.05 ? ... :
\* current >= highestPrice * 0.95 ? ... : current < averagePrice ? ... : ...
buyRecommendation(stats_) ==
    IF stats_.current * 100 <= stats_.lowestPrice * 105 THEN "great time"
    ELSE IF stats_.current * 100 >= stats_.highestPrice * 95 THEN "wait"
    ELSE IF stats_.current * stats_.averagePrice.den < stats_.averagePrice.num THEN "good"
    ELSE "neutral"

\* the props of a render
ChartProps(historyData, product_) == [historyData |-> historyData, product |-> product_]

\* const stats = calculateStats(), of the PriceChart rendered on its own
statsResult == calculateStats(Val(chartProps).historyData, Val(chartProps).product)

stats == statsResult.stats

\* validData.sort((a, b) => new Date(a.date) - new Date(b.date)): stable
RECURSIVE insertByDate(_, _)
insertByDate(sorted, item) ==
    IF sorted = <<>> THEN <<item>>
    ELSE IF sorted[Len(sorted)].date - item.date <= 0 THEN Append(sorted, item)
    ELSE Append(insertByDate(SubSeq(sorted, 1, Len(sorted) - 1), item),
                sorted[Len(sorted)])

RECURSIVE sortByDate(_)
sortByDate(list) ==
    IF list = <<>> THEN <<>>
    ELSE insertByDate(sortByDate(SubSeq(list, 1, Len(list) - 1)), list[Len(list)])

\* the points the effect hands to the Chart: the filtered elements by date
chartData(historyData) ==
    IF IsNull(historyData) \/ ~isArray(historyData) \/ Val(historyData) = <<>>
    THEN <<>>
    ELSE sortByDate(SelectSeq(Val(historyData), chartValid))

\* the colour of the line and of the area under it
gradientColor(validData) ==
    LET prices == [i \in 1..Len(validData) |-> validData[i].price] IN
    IF Len(prices) >= 2
    THEN (IF prices[Len(prices)] - prices[1] < 0 THEN "#10b981" ELSE "#ef4444")
    ELSE "#0ea5e9"

\* the points of the PriceChart rendered on its own
plotted == chartData(Val(chartProps).historyData)

\* the parent renders the chart again, with one more element in the history
HistoryRecorded(item) ==
    /\ ~IsNull(chartProps)
    /\ ~IsNull(Val(chartProps).historyData)
    /\ isArray(Val(chartProps).historyData)
    /\ chartProps' = Some(ChartProps(
            Some(Append(Val(Val(chartProps).historyData), item)),
            Val(chartProps).product))
    /\ UNCHANGED <<searchVars, appVars, netVars, priceChart, ghostVars,
                   apiCalled, tableProps, sortConfig>>

\* the parent renders the chart again, for another product
ProductChanged(product_) ==
    /\ ~IsNull(chartProps)
    /\ chartProps' = Some(ChartProps(Val(chartProps).historyData, product_))
    /\ UNCHANGED <<searchVars, appVars, netVars, priceChart, ghostVars,
                   apiCalled, tableProps, sortConfig>>

-----------------------------------------------------------------------------
(* App: what is rendered *)

loadingRendered == isLoading
errorRendered   == ~IsNull(error)
resultsRendered == ~IsNull(searchResults) /\ ~isLoading
emptyRendered   == IsNull(searchResults) /\ ~isLoading /\ IsNull(error)

\* searchResults.amazon, searchResults.flipkart behind their if: nothing for
\* a store that the response does not list
storeProducts(results, store) ==
    IF store \in DOMAIN results THEN results[store] ELSE <<>>

\* getAllProducts, as a set (its order does not matter to a click)
getAllProducts == 
    IF IsNull(searchResults) THEN {}
    ELSE Range(storeProducts(Val(searchResults), "amazon"))
            \cup Range(storeProducts(Val(searchResults), "flipkart"))

\* the forEach of getBestDeal over one store's products; lowestPrice is
\* Infinity until a product is kept, and that product's price from then on
RECURSIVE checkProducts(_, _)
checkProducts(list, bestDeal) ==
    IF list = <<>> THEN bestDeal
    ELSE checkProducts(Tail(list),
                       IF IsNull(bestDeal) \/ Head(list).price < Val(bestDeal).price
                       THEN Some(Head(list)) ELSE bestDeal)

getBestDeal ==
    IF IsNull(searchResults) THEN None
    ELSE checkProducts(storeProducts(Val(searchResults), "flipkart"),
                       checkProducts(storeProducts(Val(searchResults), "amazon"), None))

\* the isSelected prop of a product's card
cardIsSelected(product_) ==
    ~IsNull(selectedProduct) /\ Val(selectedProduct).id = product_.id

\* the selectedProductId prop of the comparison table
selectedProductIdProp ==
    IF IsNull(selectedProduct) THEN None ELSE Some(Val(selectedProduct).id)

\* isSelected of a row of the comparison table
rowIsSelected(product_) == selectedProductIdProp = Some(product_.id)

\* isHistoryLoading ? spinner : <PriceChart>, inside selectedProduct && ..., 
\* inside the results grid
priceChartRendered ==
    resultsRendered /\ ~IsNull(selectedProduct) /\ ~isHistoryLoading

errorSuggestions ==
    << <<"smartphone">>, <<"laptop">>, <<"headphones">>, <<"smartwatch">>, <<"camera">> >>

emptyStateSuggestions ==
    << <<"smartphone">>, <<"laptop">>, <<"watch">>, <<"headphones">>, <<"camera">> >>

\* the commit after an action: newObject says setPriceHistory got a fresh array
Commit(newObject) ==
    priceChart' = commitChart(priceChart, priceChartRendered', priceHistory',
                              newObject \/ priceHistory' # priceHistory)

-----------------------------------------------------------------------------
(* App: handlers *)

SearchRequest(q) == [query |-> q, overtaken |-> FALSE]

HistoryRequest(q, p) == [query |-> q, productId |-> p.id, source |-> p.source]

ProductKey(req) == [productId |-> req.productId, source |-> req.source]

\* remove request i; the older requests still waiting have been overtaken
settled(pending, i) ==
    [j \in 1..(Len(pending) - 1) |->
        IF j < i THEN [pending[j] EXCEPT !.overtaken = TRUE] ELSE pending[j + 1]]

without(pending, i) ==
    [j \in 1..(Len(pending) - 1) |-> IF j < i THEN pending[j] ELSE pending[j + 1]]

\* a handleSearch that leaves the selection and its history on screen
handleSearchKeepingSelection(query_) ==
    /\ searchQuery' = query_
    /\ isLoading' = TRUE
    /\ error' = None
    /\ searchPending' = Append(searchPending, SearchRequest(query_))
    /\ UNCHANGED <<searchResults, selectedProduct, priceHistory, isHistoryLoading,
                   historyPending, ghostVars, partVars>>

\* a handleSearch that aborts the requests still in flight
handleSearchAborting(query_) ==
    /\ searchQuery' = query_
    /\ isLoading' = TRUE
    /\ error' = None
    /\ selectedProduct' = None
    /\ priceHistory' = None
    /\ searchPending' = <<SearchRequest(query_)>>
    /\ historyRequest' = None
    /\ UNCHANGED <<searchResults, isHistoryLoading, historyPending, resultsStale,
                   partVars>>

\* handleSearch up to its await
handleSearch(query_) ==
    /\ searchQuery' = query_
    /\ isLoading' = TRUE
    /\ error' = None
    /\ selectedProduct' = None
    /\ priceHistory' = None
    /\ searchPending' = Append(searchPending, SearchRequest(query_))
    /\ historyRequest' = None
    /\ UNCHANGED <<searchResults, isHistoryLoading, historyPending, resultsStale,
                   partVars>>

\* a handleSearch without its finally: the spinner is taken down on success only
SearchSettleNoFinally(i, resp) ==
    LET out == searchProducts(resp) IN
    /\ IF out.returns
       THEN /\ searchResults' = out.value
            /\ resultsStale' = searchPending[i].overtaken
            /\ isLoading' = FALSE
            /\ UNCHANGED error
       ELSE /\ error' = Some(OrElse(out.message, "Failed to fetch search results"))
            /\ UNCHANGED <<searchResults, resultsStale, isLoading>>
    /\ searchPending' = settled(searchPending, i)
    /\ UNCHANGED <<searchQuery, selectedProduct, priceHistory, isHistoryLoading,
                   historyPending, historyRequest, searchVars, partVars>>
    /\ Commit(FALSE)

\* handleSearch after its await: try / catch / finally
SearchSettle(i, resp) ==
    LET out == searchProducts(resp) IN
    /\ IF out.returns
       THEN /\ searchResults' = out.value
            /\ resultsStale' = searchPending[i].overtaken
            /\ UNCHANGED error
       ELSE /\ error' = Some(OrElse(out.message, "Failed to fetch search results"))
            /\ UNCHANGED <<searchResults, resultsStale>>
    /\ isLoading' = FALSE
    /\ searchPending' = settled(searchPending, i)
    /\ UNCHANGED <<searchQuery, selectedProduct, priceHistory, isHistoryLoading,
                   historyPending, historyRequest, searchVars, partVars>>
    /\ Commit(FALSE)

\* handleProductSelect up to its await (a card, the best-deal card or a table row)
handleProductSelect(product) ==
    /\ resultsRendered
    /\ product \in getAllProducts
    /\ selectedProduct' = Some(product)
    /\ isHistoryLoading' = TRUE
    /\ historyPending' = Append(historyPending, HistoryRequest(searchQuery, product))
    /\ UNCHANGED <<searchQuery, searchResults, isLoading, error, priceHistory,
                   searchPending, ghostVars, searchVars, partVars>>
    /\ Commit(FALSE)

\* handleProductSelect after its await: try / catch / finally
HistorySettle(i, resp) ==
    LET out == getPriceHistory(resp) IN
    /\ IF out.returns
       THEN /\ priceHistory' = out.value
            /\ historyRequest' = Some(ProductKey(historyPending[i]))
       ELSE UNCHANGED <<priceHistory, historyRequest>>
    /\ isHistoryLoading' = FALSE
    /\ historyPending' = without(historyPending, i)
    /\ UNCHANGED <<searchQuery, searchResults, isLoading, error, selectedProduct,
                   searchPending, resultsStale, searchVars, partVars>>
    /\ Commit(out.returns)

\* the error banner's buttons
ErrorSuggestionClick(term) ==
    /\ errorRendered
    /\ handleSearch(term)
    /\ UNCHANGED searchVars
    /\ Commit(FALSE)

TryAgainClick ==
    /\ errorRendered
    /\ handleSearch(searchQuery)
    /\ UNCHANGED searchVars
    /\ Commit(FALSE)

NewSearchClick ==
    /\ errorRendered
    /\ searchQuery' = <<>>
    /\ error' = None
    /\ UNCHANGED <<searchResults, isLoading, selectedProduct, priceHistory,
                   isHistoryLoading, netVars, ghostVars, searchVars, partVars>>
    /\ Commit(FALSE)

\* the empty state's buttons
EmptyStateClick(item) ==
    /\ emptyRendered
    /\ handleSearch(item)
    /\ UNCHANGED searchVars
    /\ Commit(FALSE)

-----------------------------------------------------------------------------
(* ProductSearch: handlers (onSearch is App's handleSearch) *)

OnChange(text) ==
    /\ query' = text
    /\ UNCHANGED <<recentSearches, showRecentSearches, localStorage, appVars,
                   netVars, priceChart, ghostVars, partVars>>

OnFocus ==
    /\ showRecentSearches' = TRUE
    /\ UNCHANGED <<query, recentSearches, localStorage, appVars, netVars,
                   priceChart, ghostVars, partVars>>

\* onBlur: the 200 ms timer it starts closes the dropdown
OnBlur ==
    /\ showRecentSearches' = FALSE
    /\ UNCHANGED <<query, recentSearches, localStorage, appVars, netVars,
                   priceChart, ghostVars, partVars>>

\* a submit that does not look at the query before it searches
handleSubmitUnchecked ==
    /\ handleSearch(trim(query))
    /\ saveSearch(trim(query))
    /\ showRecentSearches' = FALSE
    /\ UNCHANGED query
    /\ Commit(FALSE)

handleSubmit ==
    IF trim(query) # <<>>
    THEN /\ handleSearch(trim(query))
         /\ saveSearch(trim(query))
         /\ showRecentSearches' = FALSE
         /\ UNCHANGED query
         /\ Commit(FALSE)
    ELSE UNCHANGED vars

handleRecentSearchClick(searchQuery_) ==
    /\ showRecentSearches
    /\ searchQuery_ \in Range(recentSearches)
    /\ query' = searchQuery_
    /\ handleSearch(searchQuery_)
    /\ saveSearch(searchQuery_)
    /\ showRecentSearches' = FALSE
    /\ Commit(FALSE)

handlePopularSearchClick(searchQuery_) ==
    /\ showRecentSearches
    /\ query' = searchQuery_
    /\ handleSearch(searchQuery_)
    /\ saveSearch(searchQuery_)
    /\ showRecentSearches' = FALSE
    /\ Commit(FALSE)

-----------------------------------------------------------------------------
(* The API client, called by any caller *)

ApiCall(fn, fetches, resp, outcome) ==
    [fn |-> fn, requests |-> fetches, response |-> resp, outcome |-> outcome]

searchProductsCalled(resp) ==
    /\ apiCalled' = Some(ApiCall("searchProducts", searchProductsFetches, resp,
                                 searchProducts(resp)))
    /\ UNCHANGED <<searchVars, appVars, netVars, priceChart, ghostVars,
                   chartProps, tableProps, sortConfig>>

getPriceHistoryCalled(resp) ==
    /\ apiCalled' = Some(ApiCall("getPriceHistory", getPriceHistoryFetches, resp,
                                 getPriceHistory(resp)))
    /\ UNCHANGED <<searchVars, appVars, netVars, priceChart, ghostVars,
                   chartProps, tableProps, sortConfig>>

updatePricesCalled(resp) ==
    /\ apiCalled' = Some(ApiCall("updatePrices", updatePricesFetches, resp,
                                 updatePrices(resp)))
    /\ UNCHANGED <<searchVars, appVars, netVars, priceChart, ghostVars,
                   chartProps, tableProps, sortConfig>>

-----------------------------------------------------------------------------
(* ComparisonTable *)

\* useState({ key: 'price', direction: 'ascending' })
initialSortConfig == [key |-> "price", direction |-> "ascending"]

\* a product as the table reads it: price, discount and rating may be null
\* or undefined
TableRow(id, source, price, discount, rating) ==
    [id |-> id, source |-> source, price |-> price, discount |-> discount,
     rating |-> rating]

TableProps(products_, selectedProductId) ==
    [products |-> products_, selectedProductId |-> selectedProductId]

\* a[sortConfig.key] ?? 0
sortValue(row, key) == IF IsNull(row[key]) THEN 0 ELSE Val(row[key])

\* a comparator that orders descending where ascending is asked, and back
compareReversed(a, b, config) ==
    LET aValue == sortValue(a, config.key)
        bValue == sortValue(b, config.key)
    IN  IF aValue < bValue THEN (IF config.direction = "ascending" THEN 1 ELSE -1)
        ELSE IF aValue > bValue THEN (IF config.direction = "ascending" THEN -1 ELSE 1)
        ELSE 0

\* the comparator handed to sort
compare(a, b, config) ==
    LET aValue == sortValue(a, config.key)
        bValue == sortValue(b, config.key)
    IN  IF aValue < bValue THEN (IF config.direction = "ascending" THEN -1 ELSE 1)
        ELSE IF aValue > bValue THEN (IF config.direction = "ascending" THEN 1 ELSE -1)
        ELSE 0

\* an insertion that keeps one copy of equal rows
RECURSIVE insertRowDistinct(_, _, _)
insertRowDistinct(sorted, row, config) ==
    IF \E i \in 1..Len(sorted) : sorted[i] = row THEN sorted
    ELSE IF sorted = <<>> THEN <<row>>
    ELSE IF compare(sorted[Len(sorted)], row, config) <= 0 THEN Append(sorted, row)
    ELSE Append(insertRowDistinct(SubSeq(sorted, 1, Len(sorted) - 1), row, config),
                sorted[Len(sorted)])

\* Array.prototype.sort: stable, so a row goes behind the rows that do not
\* compare greater
RECURSIVE insertRow(_, _, _)
insertRow(sorted, row, config) ==
    IF sorted = <<>> THEN <<row>>
    ELSE IF compare(sorted[Len(sorted)], row, config) <= 0 THEN Append(sorted, row)
    ELSE Append(insertRow(SubSeq(sorted, 1, Len(sorted) - 1), row, config),
                sorted[Len(sorted)])

RECURSIVE sort(_, _)
sort(list, config) ==
    IF list = <<>> THEN <<>>
    ELSE insertRow(sort(SubSeq(list, 1, Len(list) - 1), config), list[Len(list)], config)

\* the useMemo of sortedProducts, for the table rendered on its own
sortedProducts ==
    IF IsNull(tableProps) \/ IsNull(Val(tableProps).products) THEN <<>>
    ELSE sort(Val(Val(tableProps).products), sortConfig)

\* a < b on two fields, either of which may be undefined: a comparison with
\* undefined is false
lessThan(a, b) == ~IsNull(a) /\ ~IsNull(b) /\ Val(a) < Val(b)

\* list.reduce((best, current) => better(current, best) ? current : best, best)
RECURSIVE reduceLowest(_, _)
reduceLowest(list, lowest) ==
    IF list = <<>> THEN lowest
    ELSE reduceLowest(Tail(list),
                      IF lessThan(Head(list).price, lowest.price) THEN Head(list) ELSE lowest)

RECURSIVE reduceHighest(_, _)
reduceHighest(list, highest) ==
    IF list = <<>> THEN highest
    ELSE reduceHighest(Tail(list),
                       IF lessThan(highest.rating, Head(list).rating) THEN Head(list) ELSE highest)

getLowestPricedProduct ==
    IF sortedProducts = <<>> THEN None
    ELSE Some(reduceLowest(sortedProducts, sortedProducts[1]))

getHighestRatedProduct ==
    IF sortedProducts = <<>> THEN None
    ELSE Some(reduceHighest(sortedProducts, sortedProducts[1]))

\* the 'Best Price' badge of a row
isLowestPrice(product_) ==
    ~IsNull(getLowestPricedProduct) /\ product_.id = Val(getLowestPricedProduct).id

\* the 'Top Rated' badge of a row
isHighestRated(product_) ==
    /\ ~IsNull(getHighestRatedProduct)
    /\ product_.id = Val(getHighestRatedProduct).id
    /\ ~IsNull(product_.rating) /\ Val(product_.rating) >= 4

\* the table, its headers included, is rendered for a non-empty array only
tableRendered ==
    /\ ~IsNull(tableProps)
    /\ ~IsNull(Val(tableProps).products)
    /\ Val(Val(tableProps).products) # <<>>

\* the quick-sort buttons: Price: Low to High, Best Rated, Highest Discount
quickSorts ==
    {[key |-> "price", direction |-> "ascending"],
     [key |-> "rating", direction |-> "descending"],
     [key |-> "discount", direction |-> "descending"]}

QuickSortClick(config) ==
    /\ tableRendered
    /\ config \in quickSorts
    /\ sortConfig' = config
    /\ UNCHANGED <<searchVars, appVars, netVars, priceChart, ghostVars,
                   apiCalled, chartProps, tableProps>>

\* a header click that flips the direction whichever column was sorted
requestSortFlipping(key) ==
    /\ tableRendered
    /\ sortConfig' =
           [key |-> key,
            direction |-> IF sortConfig.direction = "ascending"
                          THEN "descending" ELSE "ascending"]
    /\ UNCHANGED <<searchVars, appVars, netVars, priceChart, ghostVars,
                   apiCalled, chartProps, tableProps>>

\* a click on a column header
requestSort(key) ==
    /\ tableRendered
    /\ sortConfig' =
           [key |-> key,
            direction |-> IF sortConfig.key = key /\ sortConfig.direction = "ascending"
                          THEN "descending" ELSE "ascending"]
    /\ UNCHANGED <<searchVars, appVars, netVars, priceChart, ghostVars,
                   apiCalled, chartProps, tableProps>>

\* the parent renders the table again, with one more product
ProductListed(row) ==
    /\ ~IsNull(tableProps)
    /\ ~IsNull(Val(tableProps).products)
    /\ tableProps' = Some(TableProps(
            Some(Append(Val(Val(tableProps).products), row)),
            Val(tableProps).selectedProductId))
    /\ UNCHANGED <<searchVars, appVars, netVars, priceChart, ghostVars,
                   apiCalled, chartProps, sortConfig>>

-----------------------------------------------------------------------------
(* The page *)

\* the state after ReactDOM.createRoot(...).render(<App />) and the mount
\* effects, for a given content of the store
LoadedApp(store) ==
    /\ query = <<>>
    /\ recentSearches = (IF IsNull(store) THEN <<>> ELSE JSONparse(store))
    /\ showRecentSearches = FALSE
    /\ localStorage = store
    /\ searchQuery = <<>>
    /\ searchResults = None
    /\ isLoading = FALSE
    /\ error = None
    /\ selectedProduct = None
    /\ priceHistory = None
    /\ isHistoryLoading = FALSE
    /\ searchPending = <<>>
    /\ historyPending = <<>>
    /\ priceChart = unmountedChart(<<>>)
    /\ resultsStale = FALSE
    /\ historyRequest = None

\* the page, with nothing else using the API client or the components
Loaded(store) ==
    /\ LoadedApp(store)
    /\ apiCalled = None
    /\ chartProps = None
    /\ tableProps = None
    /\ sortConfig = initialSortConfig

Init == Loaded(None)

\* the user reloads the page: every request and object of the old page is gone
Reload ==
    /\ query' = <<>>
    /\ recentSearches' = (IF IsNull(localStorage) THEN <<>> ELSE JSONparse(localStorage))
    /\ showRecentSearches' = FALSE
    /\ searchQuery' = <<>>
    /\ searchResults' = None
    /\ isLoading' = FALSE
    /\ error' = None
    /\ selectedProduct' = None
    /\ priceHistory' = None
    /\ isHistoryLoading' = FALSE
    /\ searchPending' = <<>>
    /\ historyPending' = <<>>
    /\ priceChart' = unmountedChart(<<>>)
    /\ resultsStale' = FALSE
    /\ historyRequest' = None
    /\ apiCalled' = None
    /\ chartProps' = None
    /\ tableProps' = None
    /\ sortConfig' = initialSortConfig
    /\ UNCHANGED localStorage

-----------------------------------------------------------------------------
(* Specifications *)

\* what the user types, and how far down a list of suggestions he clicks
TypedInputs == {<<>>, <<" ">>, <<" ", "tv", " ">>}
MaxSuggestion == 1

Clicked(list) == {list[i] : i \in 1..Min(MaxSuggestion, Len(list))}

mayRequest(limit) == Len(searchPending) + Len(historyPending) < limit

\* every history response creates at most one Chart
maySelect ==
    /\ mayRequest(MaxInFlight)
    /\ Len(priceChart.charts) + Len(historyPending) < MaxCharts

\* The whole page: the user types one query or follows the first suggestions
Next ==
    \/ OnChange(<<" ", "tv", " ">>)
    \/ mayRequest(MaxInFlight) /\ handleSubmit
    \/ \E i \in 1..Len(searchPending) :
          \E resp \in SearchResponses(searchPending[i]) : SearchSettle(i, resp)
    \/ maySelect /\ \E p \in Products : handleProductSelect(p)
    \/ \E i \in 1..Len(historyPending) :
          \E resp \in HistoryResponses(historyPending[i]) : HistorySettle(i, resp)
    \/ mayRequest(MaxInFlight)
          /\ \E term \in Clicked(errorSuggestions) : ErrorSuggestionClick(term)
    \/ mayRequest(MaxInFlight) /\ TryAgainClick
    \/ NewSearchClick
    \/ mayRequest(MaxInFlight)
          /\ \E item \in Clicked(emptyStateSuggestions) : EmptyStateClick(item)
    \/ Reload

Spec == Init /\ [][Next]_vars

\* The page searched from the box and from the error banner, when every
\* request that was sent is answered in the end
SearchSettles ==
    \E i \in 1..Len(searchPending) :
        \E resp \in SearchResponses(searchPending[i]) : SearchSettle(i, resp)

HistorySettles ==
    \E i \in 1..Len(historyPending) :
        \E resp \in HistoryResponses(historyPending[i]) : HistorySettle(i, resp)

NextLive ==
    \/ OnChange(<<" ", "tv", " ">>)
    \/ mayRequest(MaxInFlight) /\ handleSubmit
    \/ SearchSettles
    \/ maySelect /\ \E p \in Products : handleProductSelect(p)
    \/ HistorySettles
    \/ mayRequest(MaxInFlight) /\ ErrorSuggestionClick(errorSuggestions[1])
    \/ Reload

SpecLive ==
    Init /\ [][NextLive]_vars /\ WF_vars(SearchSettles) /\ WF_vars(HistorySettles)

\* The search box with all of its suggestions, one search at a time
NextBox ==
    \/ \E text \in TypedInputs : OnChange(text)
    \/ OnFocus
    \/ OnBlur
    \/ mayRequest(MaxInFlightBox) /\ handleSubmit
    \/ mayRequest(MaxInFlightBox)
          /\ \E s \in Range(recentSearches) : handleRecentSearchClick(s)
    \/ mayRequest(MaxInFlightBox)
          /\ \E s \in Range(popularSearches) : handlePopularSearchClick(s)
    \/ \E i \in 1..Len(searchPending) :
          \E resp \in SearchResponsesBox(searchPending[i]) : SearchSettle(i, resp)
    \/ Reload

SpecBox == Init /\ [][NextBox]_vars

\* The API client against every kind of answer: called on its own, and by
\* App through the buttons of the empty state and of the error banner
NextApi ==
    \/ \E resp \in ApiResponses(resultsFor(<<"smartphone">>)) :
          searchProductsCalled(resp)
    \/ \E resp \in ApiResponses(historyOf(1, "amazon")) :
          getPriceHistoryCalled(resp)
    \/ \E resp \in ApiResponses([message |-> "Prices updated"]) :
          updatePricesCalled(resp)
    \/ \E item \in Clicked(emptyStateSuggestions) : EmptyStateClick(item)
    \/ \E i \in 1..Len(searchPending) :
          \E resp \in ApiResponses(resultsFor(searchPending[i].query)) :
              SearchSettle(i, resp)
    \/ \E term \in Clicked(errorSuggestions) : ErrorSuggestionClick(term)
    \/ TryAgainClick
    \/ NewSearchClick
    \/ Reload

SpecApi == Init /\ [][NextApi]_vars

\* PriceChart rendered on its own
MaxHistoryLen == 3

SeqsUpTo(S, n) == UNION {[1..k -> S] : k \in 0..n}

HistoryItems ==
    {nullEntry, NaNEntry(1), TextEntry(1), HistoryEntry(1, 0), HistoryEntry(1, -5),
     HistoryEntry(3, 100), HistoryEntry(1, 100), HistoryEntry(2, 80),
     HistoryEntry(0, 120), HistoryEntry(4, 104), HistoryEntry(5, 90)}

HistoryInputs ==
    {None, NonArray} \cup {Some(h) : h \in SeqsUpTo(HistoryItems, MaxHistoryLen)}

ProductInputs == {None, Some(Product(1, "amazon", 100)), Some(Product(2, "flipkart", 0))}

InitStats ==
    /\ LoadedApp(None)
    /\ apiCalled = None
    /\ chartProps \in {Some(ChartProps(h, p)) : h \in HistoryInputs, p \in ProductInputs}
    /\ tableProps = None
    /\ sortConfig = initialSortConfig

NextStats ==
    \/ /\ Len(Val(chartProps).historyData) = 1
       /\ Len(Val(Val(chartProps).historyData)) < MaxHistoryLen
       /\ \E item \in HistoryItems : HistoryRecorded(item)
    \/ \E p \in ProductInputs : ProductChanged(p)

SpecStats == InitStats /\ [][NextStats]_vars

\* ComparisonTable rendered on its own
MaxRows == 3

TableRows ==
    {TableRow(1, "amazon", Some(100), Some(10), Some(4)),
     TableRow(2, "flipkart", Some(90), None, Some(5)),
     TableRow(3, "amazon", None, Some(5), None),
     TableRow(1, "flipkart", Some(100), Some(20), Some(3)),
     TableRow(4, "flipkart", Some(-1), Some(0), Some(4))}

SortKeys == {"price", "discount", "rating"}

InitTable ==
    /\ LoadedApp(None)
    /\ apiCalled = None
    /\ chartProps = None
    /\ tableProps \in {Some(TableProps(l, None)) :
                          l \in {None} \cup {Some(r) : r \in SeqsUpTo(TableRows, MaxRows)}}
    /\ sortConfig = initialSortConfig

NextTable ==
    \/ \E key \in SortKeys : requestSort(key)
    \/ \E config \in quickSorts : QuickSortClick(config)
    \/ /\ Len(Val(tableProps).products) = 1
       /\ Len(Val(Val(tableProps).products)) < MaxRows
       /\ \E row \in TableRows : ProductListed(row)

SpecTable == InitTable /\ [][NextTable]_vars

\* The listings of up to three stores, each store listed or not
MaxListing == 1

Stores == {"amazon", "flipkart", "croma"}

Listings(store) == SeqsUpTo({Product(1, store, 100), Product(2, store, 90)}, MaxListing)

DealResults ==
    UNION {{r \in [listed -> UNION {Listings(store) : store \in Stores}] :
                \A store \in listed : r[store] \in Listings(store)} :
           listed \in SUBSET Stores}

NextDeal ==
    \/ OnChange(<<" ", "tv", " ">>)
    \/ mayRequest(MaxInFlightBox) /\ handleSubmit
    \/ mayRequest(MaxInFlightBox)
          /\ \E item \in Clicked(emptyStateSuggestions) : EmptyStateClick(item)
    \/ \E i \in 1..Len(searchPending) :
          \E r \in DealResults : SearchSettle(i, OkJson(r))
    \/ Reload

SpecDeal == Init /\ [][NextDeal]_vars

-----------------------------------------------------------------------------
(* Properties *)

NoDuplicates(s) == \A i, j \in 1..Len(s) : i # j => s[i] # s[j]

CappedAndDistinct(s) == Len(s) <= 5 /\ NoDuplicates(s)

\* a step in which App.handleSearch ran: one more request is in flight
SearchStarted == Len(searchPending') = Len(searchPending) + 1

StartedQuery == searchPending'[Len(searchPending')].query

storedSearches == IF IsNull(localStorage) THEN <<>> ELSE JSONparse(localStorage)

\* C1: from an empty store, the recent-searches list in state and the list
\* stored under 'recentSearches' never hold more than 5 entries and never
\* hold the same string twice.
C1_RecentCappedAndDistinct ==
    /\ CappedAndDistinct(recentSearches)
    /\ CappedAndDistinct(storedSearches)

\* the list is full, written to the store, and headed by the search just made
C1_FullListReached ==
    /\ Len(recentSearches) = 5
    /\ localStorage = Some(recentSearches)
    /\ recentSearches[1] = <<"tv">>
    /\ recentSearches[5] = <<"smartphone">>
    /\ searchQuery = <<"tv">>

\* C2: right after saveSearch(q) with a non-blank q, q is at index 0 and the
\* rest is the previous list without q, in its previous order, cut so that
\* the whole has at most 5 entries (the oldest entries are the ones dropped).
C2_MostRecentFirst ==
    [][SearchStarted =>
        LET q == StartedQuery
            others == SelectSeq(recentSearches, LAMBDA s : s # q)
            new == recentSearches'
        IN  /\ new # <<>>
            /\ new[1] = q
            /\ Len(new) = Min(5, 1 + Len(others))
            /\ \A k \in 2..Len(new) : new[k] = others[k - 1]
            /\ localStorage' = Some(new)]_vars

\* the list is full and headed by the query in the box, whose search is in
\* flight
C2_MovedToFrontReached ==
    /\ recentSearches = << <<"smartphone">>, <<"tv">>, <<"camera">>,
                           <<"smartwatch">>, <<"headphones">> >>
    /\ query = <<"smartphone">>
    /\ isLoading

\* C3: after every search the root controller executes (every call of
\* App.handleSearch with q), q is in the persisted recent-searches list.
C3_EverySearchIsStored ==
    [][SearchStarted => StartedQuery \in Range(IF IsNull(localStorage') THEN <<>>
                                               ELSE JSONparse(localStorage'))]_vars

Count(b) == IF b THEN 1 ELSE 0

\* C4: exactly one of the four views (empty state, spinner, results grid,
\* error banner) is rendered, and never the error banner with the results grid.
C4_ExactlyOneView ==
    /\ Count(emptyRendered) + Count(loadingRendered) + Count(resultsRendered)
         + Count(errorRendered) = 1
    /\ ~(errorRendered /\ resultsRendered)

\* C5: in the state right after handleSearch(q) begins, searchQuery = q,
\* isLoading is true, and error, selectedProduct and priceHistory are null.
C5_NewSearchIsLoading ==
    [][SearchStarted =>
        /\ searchQuery' = StartedQuery
        /\ isLoading' = TRUE
        /\ error' = None
        /\ selectedProduct' = None
        /\ priceHistory' = None]_vars

\* a search started while a product's chart was on screen
C5_SearchFromSelectionReached ==
    /\ isLoading
    /\ Len(searchPending) = 1
    /\ ~IsNull(searchResults)
    /\ Len(priceChart.charts) = 1
    /\ ~priceChart.mounted
    /\ IsNull(selectedProduct) /\ IsNull(priceHistory)

\* C6: whenever a search request has not yet resolved or rejected,
\* isLoading is true.
C6_LoadingWhileInFlight == searchPending # <<>> => isLoading

\* the requests in flight all stay in flight, or one of them settles
InFlightKept ==
    \/ /\ Len(searchPending') >= Len(searchPending)
       /\ SubSeq(searchPending', 1, Len(searchPending)) = searchPending
    \/ \E i \in 1..Len(searchPending) : searchPending' = settled(searchPending, i)

\* C7: a new search does not abort the requests in flight (short of a page
\* load, a request leaves flight only by settling), so their responses are
\* still applied when they arrive, in whatever order.
C7_NewSearchKeepsInFlight == [][~Reload => InFlightKept]_vars

\* smartphone was searched, then tv; tv's response was applied first and
\* smartphone's afterwards: the results are smartphone's under the query tv
C7_StaleResultsReached ==
    /\ searchResults = Some(resultsFor(<<"smartphone">>))
    /\ resultsStale
    /\ searchQuery = <<"tv">>
    /\ ~isLoading
    /\ IsNull(error)
    /\ searchPending = <<>>

\* a step in which a getPriceHistory call rejected
HistoryRejected ==
    \E i \in 1..Len(historyPending) :
        \E resp \in HistoryResponses(historyPending[i]) :
            ~getPriceHistory(resp).returns /\ HistorySettle(i, resp)

\* C8: after a price-history fetch fails, priceHistory is null, and error,
\* isLoading and searchResults are as they were.
C8_FailedHistoryIsCleared ==
    [][HistoryRejected =>
        /\ priceHistory' = None
        /\ UNCHANGED <<error, isLoading, searchResults>>]_vars

selectedKey == [productId |-> Val(selectedProduct).id,
                source |-> Val(selectedProduct).source]

\* C9: when a product is selected, isHistoryLoading is false and priceHistory
\* is not null, priceHistory is the response to the request made for the
\* selected product.
C9_HistoryOfSelectedProduct ==
    (~IsNull(selectedProduct) /\ ~isHistoryLoading /\ ~IsNull(priceHistory))
        => historyRequest = Some(selectedKey)

\* C10: every Chart created earlier is destroyed before a new one is
\* created: at most one undestroyed Chart instance exists.
C10_AtMostOneLiveChart == Cardinality(liveCharts) <= 1

\* the non-2xx answers, as the caller sees them
rejectedByServer(resp) == resp.fetched /\ ~resp.ok

malformedSuccess(resp) == resp.fetched /\ resp.ok /\ ~resp.isJson

\* C11: a non-2xx response whose JSON body carries a non-empty 'error' m makes
\* searchProducts, getPriceHistory and updatePrices reject with the message m.
C11_JsonErrorIsTheMessage ==
    ~IsNull(apiCalled) =>
        LET resp == Val(apiCalled).response
            out == Val(apiCalled).outcome
        IN  (rejectedByServer(resp) /\ resp.isJson /\ resp.errField # "")
                => (~out.returns /\ out.message = resp.errField)

\* searchProducts against a 500 response with the body {error: "x"}
C11_MockedServerErrorReached ==
    /\ ~IsNull(apiCalled)
    /\ Val(apiCalled).fn = "searchProducts"
    /\ Val(apiCalled).response = ErrJson(500, "x")
    /\ Val(apiCalled).outcome = Throws("x")

\* the message C12 expects for a non-2xx response
resolvedMessage(resp) ==
    IF resp.isJson /\ resp.errField # "" THEN resp.errField
    ELSE IF ~resp.isJson /\ resp.text # "" /\ Len(resp.text) < 100 THEN resp.text
    ELSE ServerError(resp.status)

\* C12: for a non-2xx response the message is the JSON body's message if it
\* has one, otherwise the plain-text body if non-empty and shorter than 100
\* characters, otherwise the message embedding the status code.
C12_MessageResolutionOrder ==
    ~IsNull(apiCalled) =>
        LET resp == Val(apiCalled).response
            out == Val(apiCalled).outcome
        IN  rejectedByServer(resp)
                => (~out.returns /\ out.message = resolvedMessage(resp))

\* the value each function falls back to
fallbackOf(fn) ==
    IF fn = "searchProducts" THEN Some([amazon |-> <<>>, flipkart |-> <<>>])
    ELSE IF fn = "getPriceHistory" THEN Some(<<>>)
    ELSE Some([message |-> "Operation completed, but response was not valid JSON"])

\* a step in which a search of App got a 2xx answer with an unparseable body
MalformedSearchSettled ==
    \E i \in 1..Len(searchPending) : SearchSettle(i, OkGarbled)

SearchRejected ==
    \E i \in 1..Len(searchPending) :
        \E resp \in ApiResponses(resultsFor(searchPending[i].query)) :
            ~searchProducts(resp).returns /\ SearchSettle(i, resp)

\* C14: each call issues one request and either returns a value or rejects
\* with a non-empty message, which it does for every non-2xx response and
\* transport failure; after a failed search App's error is a non-empty string.
C14_OneRequestTwoOutcomes ==
    [][/\ ~IsNull(apiCalled') =>
            LET call == Val(apiCalled') IN
            /\ Len(call.requests) = 1
            /\ call.outcome.returns => ~IsNull(call.outcome.value)
            /\ ~call.outcome.returns => call.outcome.message # ""
            /\ (rejectedByServer(call.response) \/ ~call.response.fetched)
                   => ~call.outcome.returns
       /\ SearchRejected => (~IsNull(error') /\ Val(error') # "")]_vars

\* updatePrices rejected after a transport failure without a message, and a
\* search of App failed the same way
C14_GenericMessageReached ==
    /\ ~IsNull(apiCalled)
    /\ Val(apiCalled).fn = "updatePrices"
    /\ Val(apiCalled).response = FetchRejected
    /\ Val(apiCalled).outcome = Throws("An error occurred while updating prices")
    /\ error = Some("An error occurred while searching for products")
    /\ ~isLoading

\* the history array handed to PriceChart (empty when it is null or no array)
historyList ==
    IF isArray(Val(chartProps).historyData) THEN Val(Val(chartProps).historyData)
    ELSE <<>>

\* the positions of the entries with a numeric, non-NaN price above 0
pricedAt ==
    {i \in 1..Len(historyList) :
        /\ historyList[i].present
        /\ historyList[i].priceType = "number"
        /\ historyList[i].price > 0}

firstPriced == CHOOSE i \in pricedAt : \A j \in pricedAt : i <= j
lastPriced  == CHOOSE i \in pricedAt : \A j \in pricedAt : j <= i

RECURSIVE TotalAt(_)
TotalAt(positions) ==
    IF positions = {} THEN 0
    ELSE LET i == CHOOSE k \in positions : TRUE
         IN  historyList[i].price + TotalAt(positions \ {i})

\* the date of entry i, null when it has none
dateAt(i) == IF historyList[i].date = 0 THEN None ELSE Some(historyList[i].date)

fallbackPrice ==
    IF IsNull(Val(chartProps).product) THEN 0 ELSE Val(Val(chartProps).product).price

\* C15: for any history (null, no array, empty, with null entries or prices
\* that are not numbers, NaN, zero or negative) calculateStats does not raise
\* and daysTracked is the number of entries with a numeric price above 0.
C15_StatsNeverRaise ==
    ~IsNull(chartProps) =>
        /\ ~statsResult.raised
        /\ stats.daysTracked = Cardinality(pricedAt)

\* a history of a null entry, a zero price and one valid price counts one day
C15_MixedHistoryReached ==
    /\ ~IsNull(chartProps)
    /\ Val(chartProps).historyData =
           Some(<<nullEntry, HistoryEntry(1, 0), HistoryEntry(3, 100)>>)
    /\ ~statsResult.raised
    /\ stats.daysTracked = 1

\* C16: when no entry passes the filter, lowest, highest, average and current
\* are the product's price (0 without one), the change and its percentage
\* are 0 and the dates are null.
C16_FallbackStats ==
    (~IsNull(chartProps) /\ pricedAt = {}) =>
        /\ stats.lowestPrice = fallbackPrice
        /\ stats.highestPrice = fallbackPrice
        /\ stats.averagePrice.num = fallbackPrice * stats.averagePrice.den
        /\ stats.current = fallbackPrice
        /\ stats.priceChange = 0
        /\ stats.priceChangePercent.num = 0
        /\ stats.lowestDate = None
        /\ stats.highestDate = None

\* a history of invalid entries only, for a product priced 100
C16_AllInvalidReached ==
    /\ ~IsNull(chartProps)
    /\ Val(chartProps).historyData = Some(<<NaNEntry(1), HistoryEntry(1, -5)>>)
    /\ Val(chartProps).product = Some(Product(1, "amazon", 100))
    /\ stats.lowestPrice = 100
    /\ stats.current = 100
    /\ stats.daysTracked = 0

\* C17: with a valid entry, lowestPrice and highestPrice are the least and the
\* greatest valid price, averagePrice is their mean, and lowestDate and
\* highestDate are the dates of the first entries, in input order, that have
\* those prices.
C17_MinMaxMeanFirstDates ==
    (~IsNull(chartProps) /\ pricedAt # {}) =>
        LET lowAt == CHOOSE i \in pricedAt :
                        /\ \A j \in pricedAt : historyList[i].price <= historyList[j].price
                        /\ \A j \in pricedAt :
                              historyList[j].price = historyList[i].price => i <= j
            highAt == CHOOSE i \in pricedAt :
                        /\ \A j \in pricedAt : historyList[j].price <= historyList[i].price
                        /\ \A j \in pricedAt :
                              historyList[j].price = historyList[i].price => i <= j
        IN  /\ stats.lowestPrice = historyList[lowAt].price
            /\ stats.highestPrice = historyList[highAt].price
            /\ stats.averagePrice.num * Cardinality(pricedAt)
                   = TotalAt(pricedAt) * stats.averagePrice.den
            /\ stats.lowestDate = dateAt(lowAt)
            /\ stats.highestDate = dateAt(highAt)

\* two entries share the lowest price: the date is the first one's, which is
\* the later date
C17_TieByFirstOccurrenceReached ==
    /\ ~IsNull(chartProps)
    /\ Val(chartProps).historyData =
           Some(<<HistoryEntry(0, 120), HistoryEntry(3, 100), HistoryEntry(1, 100)>>)
    /\ stats.lowestPrice = 100
    /\ stats.lowestDate = Some(3)
    /\ stats.highestDate = None

\* C18: current is the last valid price in input order, priceChange is last
\* minus first, priceChangePercent is priceChange / first * 100, and both are
\* 0 with a single valid entry.
C18_ChangeFromFirstToLast ==
    (~IsNull(chartProps) /\ pricedAt # {}) =>
        LET first == historyList[firstPriced].price
            last == historyList[lastPriced].price
        IN  /\ stats.current = last
            /\ stats.priceChange = last - first
            /\ stats.priceChangePercent.num * first
                   = (last - first) * 100 * stats.priceChangePercent.den
            /\ Cardinality(pricedAt) = 1 =>
                   (stats.priceChange = 0 /\ stats.priceChangePercent.num = 0)

\* the entries arrive newest first: the change is from 100 (day 3) to 80
\* (day 2), 20 percent down
C18_UnsortedHistoryReached ==
    /\ ~IsNull(chartProps)
    /\ Val(chartProps).historyData =
           Some(<<HistoryEntry(3, 100), nullEntry, HistoryEntry(2, 80)>>)
    /\ stats.current = 80
    /\ stats.priceChange = -20
    /\ stats.priceChangePercent = Rat(-2000, 100)

\* C19: the recommendation is 'great time' if current <= lowest * 1.05, else
\* 'wait' if current >= highest * 0.95, else 'good' if current < average,
\* else 'neutral'; lowest 100 with current 104 is a great time to buy.
C19_FirstMatchingRule ==
    ~IsNull(chartProps) =>
        LET shown == buyRecommendation(stats)
            nearLowest == stats.current * 100 <= stats.lowestPrice * 105
            nearHighest == stats.current * 100 >= stats.highestPrice * 95
            belowAverage ==
                stats.current * stats.averagePrice.den < stats.averagePrice.num
        IN  /\ shown \in {"great time", "wait", "good", "neutral"}
            /\ shown = "great time" <=> nearLowest
            /\ shown = "wait" <=> (~nearLowest /\ nearHighest)
            /\ shown = "good" <=> (~nearLowest /\ ~nearHighest /\ belowAverage)
            /\ shown = "neutral" <=> (~nearLowest /\ ~nearHighest /\ ~belowAverage)
            /\ (stats.lowestPrice = 100 /\ stats.current = 104) => shown = "great time"

\* lowest 100, current 104: within 5% of the lowest and of the highest
C19_WithinFivePercentReached ==
    /\ ~IsNull(chartProps)
    /\ Val(chartProps).historyData =
           Some(<<HistoryEntry(3, 100), HistoryEntry(4, 104)>>)
    /\ stats.lowestPrice = 100
    /\ stats.current = 104
    /\ buyRecommendation(stats) = "great time"

\* C20: with sortConfig = (price, ascending) the prices of the displayed rows
\* that have a price are in non-decreasing order.
C20_PriceAscendingOrder ==
    (sortConfig = [key |-> "price", direction |-> "ascending"]) =>
        \A i, j \in 1..Len(sortedProducts) :
            (i < j /\ ~IsNull(sortedProducts[i].price) /\ ~IsNull(sortedProducts[j].price))
                => Val(sortedProducts[i].price) <= Val(sortedProducts[j].price)

\* prices 100, none, 90 are displayed as none, 90, 100
C20_UnsortedInputReached ==
    /\ ~IsNull(tableProps)
    /\ Val(tableProps).products =
           Some(<<TableRow(1, "amazon", Some(100), Some(10), Some(4)),
                  TableRow(3, "amazon", None, Some(5), None),
                  TableRow(2, "flipkart", Some(90), None, Some(5))>>)
    /\ sortConfig = [key |-> "price", direction |-> "ascending"]
    /\ sortedProducts =
           <<TableRow(3, "amazon", None, Some(5), None),
             TableRow(2, "flipkart", Some(90), None, Some(5)),
             TableRow(1, "amazon", Some(100), Some(10), Some(4))>>

\* the products handed to the table, [] when they are null or not an array
tableInput ==
    IF IsNull(tableProps) \/ IsNull(Val(tableProps).products) THEN <<>>
    ELSE Val(Val(tableProps).products)

Occurrences(list, row) == Cardinality({i \in 1..Len(list) : list[i] = row})

\* the value a row is ordered by: its field, 0 when the field is missing
keyOrZero(row) ==
    IF row[sortConfig.key] = None THEN 0 ELSE row[sortConfig.key][1]

OrderedPermutation ==
    /\ Len(sortedProducts) = Len(tableInput)
    /\ \A row \in Range(tableInput) \cup Range(sortedProducts) :
           Occurrences(sortedProducts, row) = Occurrences(tableInput, row)
    /\ \A i, j \in 1..Len(sortedProducts) :
           i < j =>
               IF sortConfig.direction = "ascending"
               THEN keyOrZero(sortedProducts[i]) <= keyOrZero(sortedProducts[j])
               ELSE keyOrZero(sortedProducts[i]) >= keyOrZero(sortedProducts[j])

\* C21: under every sort key and direction sortedProducts holds each row of
\* the input as often as the input does, ordered by the key with a missing
\* value as 0 (non-decreasing when ascending, non-increasing when descending),
\* and a change of the sort order leaves the input array as it was.
C21_SortedIsOrderedPermutation ==
    /\ []OrderedPermutation
    /\ [][sortConfig' # sortConfig => tableProps' = tableProps]_vars

\* ratings 4, none, 4 (the first row twice) sorted descending: both copies
\* are kept, in front of the row without a rating
C21_DescendingWithDuplicatesReached ==
    /\ tableInput =
           <<TableRow(1, "amazon", Some(100), Some(10), Some(4)),
             TableRow(3, "amazon", None, Some(5), None),
             TableRow(1, "amazon", Some(100), Some(10), Some(4))>>
    /\ sortConfig = [key |-> "rating", direction |-> "descending"]
    /\ sortedProducts =
           <<TableRow(1, "amazon", Some(100), Some(10), Some(4)),
             TableRow(1, "amazon", Some(100), Some(10), Some(4)),
             TableRow(3, "amazon", None, Some(5), None)>>

\* the rows of the rendered table
displayedRows == IF tableRendered THEN Range(sortedProducts) ELSE {}

\* C22: a displayed row carries 'Best Price' only if no row has a price that
\* is lower than its own or that it lacks, and carries 'Top Rated' exactly when it has a rating
\* of at least 4 and no row has a higher one.
C22_BadgesMatchExtremes ==
    \A row \in displayedRows :
        /\ isLowestPrice(row) =>
               \A other \in displayedRows :
                   other.price # None =>
                       row.price # None /\ row.price[1] <= other.price[1]
        /\ isHighestRated(row) <=>
               /\ row.rating # None
               /\ row.rating[1] >= 4
               /\ \A other \in displayedRows :
                      other.rating # None => other.rating[1] <= row.rating[1]

\* every product of every store of the results on screen
listedProducts ==
    IF searchResults = None THEN {}
    ELSE UNION {Range(searchResults[1][store]) : store \in DOMAIN searchResults[1]}

\* C23: getBestDeal returns a product of the results than which no product
\* of any store of the results is cheaper, and null only when no store lists
\* a product.
C23_BestDealIsCheapestOfAllStores ==
    IF listedProducts = {} THEN getBestDeal = None
    ELSE /\ getBestDeal # None
         /\ getBestDeal[1] \in listedProducts
         /\ \A p \in listedProducts : getBestDeal[1].price <= p.price

\* C24: when every request is answered in the end, the page comes again and
\* again to a state with neither spinner (isLoading and isHistoryLoading both
\* false), and isLoading is false whenever no search request is in flight.
C24_LoadingEnds ==
    /\ [](searchPending = <<>> => ~isLoading)
    /\ []<>(~isLoading /\ ~isHistoryLoading)

\* a search and a history fetch have both failed, nothing is in flight, and
\* neither spinner is left
C24_BothRejectedReached ==
    /\ error # None
    /\ selectedProduct # None /\ priceHistory = None
    /\ searchPending = <<>> /\ historyPending = <<>>
    /\ ~isLoading /\ ~isHistoryLoading

\* C25: a price history is held only while a product is selected; a history
\* response that arrives after a new search has cleared the selection leaves
\* priceHistory null.
C25_HistoryOnlyWithSelection ==
    priceHistory # None => selectedProduct # None

\* how often destroy() was called on each Chart created since the page loaded
destroyCalls == priceChart.charts

\* C26: no Chart is destroyed twice, and none is left undestroyed once
\* PriceChart is unmounted or its historyData is empty.
C26_EachChartDestroyedOnce ==
    /\ \A i \in 1..Len(destroyCalls) : destroyCalls[i] <= 1
    /\ (~priceChart.mounted \/ ~hasData(priceHistory)) =>
           \A i \in 1..Len(destroyCalls) : destroyCalls[i] = 1

\* the elements of the history that the statistics count
counted ==
    LET h == chartProps[1].historyData IN
    IF h = None \/ h = NonArray THEN <<>>
    ELSE SelectSeq(h[1], LAMBDA item : item.present /\ item.priceType = "number" /\ item.price > 0)

\* C27: the plotted points are the elements counted in stats.daysTracked,
\* each as often as it is counted, in non-decreasing date order, and with two
\* or more points the line is green exactly when stats.priceChange is below 0
\* and red otherwise.
C27_ChartAgreesWithStats ==
    /\ Len(plotted) = stats.daysTracked
    /\ \A item \in Range(plotted) \cup Range(counted) :
           Occurrences(plotted, item) = Occurrences(counted, item)
    /\ \A i, j \in 1..Len(plotted) : i < j => plotted[i].date <= plotted[j].date
    /\ Len(plotted) >= 2 =>
           /\ gradientColor(plotted) = "#10b981" <=> stats.priceChange < 0
           /\ gradientColor(plotted) = "#ef4444" <=> stats.priceChange >= 0

\* C28: a click on the header of a column makes that column the sort key,
\* descending exactly when it was the sort key already with direction
\* ascending and ascending otherwise; and whatever is clicked, header or
\* quick-sort button, the sort key is one of price, discount and rating.
C28_HeaderClickAlternates ==
    [][/\ \A key \in SortKeys :
              requestSort(key) =>
                  /\ sortConfig'.key = key
                  /\ sortConfig'.direction \in {"ascending", "descending"}
                  /\ sortConfig'.direction = "descending" <=>
                         (sortConfig.key = key /\ sortConfig.direction = "ascending")
       /\ sortConfig'.key \in {"price", "discount", "rating"}]_vars

\* the rows are shown by rating, ascending: no quick-sort button sets that
\* order, a click on the rating header did
C28_OtherHeaderStartsAscendingReached ==
    /\ tableRendered
    /\ sortConfig = [key |-> "rating", direction |-> "ascending"]

\* a string of no characters, or of spaces only
blank(text) == \A i \in 1..Len(text) : text[i] = " "

\* text without the spaces in front of its first and behind its last
\* character that is not a space
trimmed(text) ==
    LET kept == {i \in 1..Len(text) : text[i] # " "} IN
    IF kept = {} THEN <<>>
    ELSE SubSeq(text, CHOOSE i \in kept : \A j \in kept : i <= j,
                      CHOOSE i \in kept : \A j \in kept : j <= i)

\* C29: a submit of a blank query sends no search and changes neither the
\* recent searches, the store nor the state of App; a submit of any other query
\* sends a search for the trimmed query and stores the trimmed query in front;
\* and no blank string is ever among the recent searches.
C29_BlankSubmitIsIgnored ==
    [][/\ handleSubmit =>
              IF blank(query)
              THEN UNCHANGED <<recentSearches, localStorage, appVars, netVars>>
              ELSE /\ Len(searchPending') = Len(searchPending) + 1
                   /\ searchPending'[Len(searchPending')].query = trimmed(query)
                   /\ searchQuery' = trimmed(query)
                   /\ recentSearches'[1] = trimmed(query)
                   /\ localStorage' = <<recentSearches'>>
       /\ \A i \in 1..Len(recentSearches') : ~blank(recentSearches'[i])]_vars

\* ' tv ' was submitted and is stored as 'tv'; a single space is typed now and
\* may be submitted
C29_BlankTypedAfterTrimmedSearchReached ==
    /\ recentSearches = << <<"tv">> >>
    /\ localStorage = << <<<<"tv">>>> >>
    /\ searchQuery = <<"tv">>
    /\ query = <<" ">>
    /\ mayRequest(MaxInFlightBox)

\* C30: once a product is selected, its card and its table row are shown
\* selected and no other product's card or row is, also when a product of
\* another store has the same id.
C30_ExactlyTheSelectedProduct ==
    [][\A p \in Products :
           handleProductSelect(p) =>
               \A q \in getAllProducts' :
                   /\ cardIsSelected(q)' <=> q = p
                   /\ rowIsSelected(q)' <=> q = p]_vars

====
